---- MODULE Spec2Model ----
(***************************************************************************)
(* SafeWaters - Fishermen GPS Risk Monitor (gps_energy_monitoring.py).     *)
(*                                                                         *)
(* The Streamlit script is executed from top to bottom on every rerun;     *)
(* st.session_state survives between reruns, everything else is rebuilt.   *)
(* Text is modelled as a sequence of one-character strings so that the     *)
(* substring tests of the script ("WATA" in message, "Safe" in label,      *)
(* Series.str.contains) are computed and not assumed.  An emoji is one     *)
(* character, written by its code point.                                   *)
(*                                                                         *)
(* A Kp value is a float in the script.  It is modelled as an integer      *)
(* number of 1/KpScale units (3.9 is 390 when KpScale is 100); NaN is the  *)
(* float pandas yields for a null or missing kp_index.                     *)
(***************************************************************************)
EXTENDS Integers, Sequences, FiniteSets, TLC

VARIABLES
  kp, kp2, risk, risk2,     \* classifier harness: arguments and results
  session_state,            \* st.session_state: key -> value
  city_filter,              \* value of the "Select a Location" selectbox
  search_query,             \* value of the "Search Location" text input
  display,                  \* what the last script run put on the page
  now,                      \* the clock read by datetime.now()
  fetches,                  \* number of calls of fetch_data so far
  origin,                   \* history: session key -> the fetch that wrote it
  latest,                   \* history: most recent fetch_data that returned
  last_run                  \* history: inputs and outcome of the last run

clvars == <<kp, kp2, risk, risk2>>
uivars == <<session_state, city_filter, search_query, display, now, fetches,
            origin, latest, last_run>>
vars == <<clvars, uivars>>

---------------------------------------------------------------------------
(* Bounds of the model *)
KpScale == 100      \* resolution of a Kp value: units per 1.0
MaxKp == 12         \* largest Kp value classified, in whole units
MaxDelta == 100     \* largest gap kp2 - kp of a compared pair, in units

---------------------------------------------------------------------------
(* Python values *)
NaN == -1
None == <<"None">>
Str_Empty == <<>>

\* float comparisons: every comparison with NaN is False
PyLe(a, b) == a # NaN /\ b # NaN /\ a <= b
PyEq(a, b) == a # NaN /\ b # NaN /\ a = b

---------------------------------------------------------------------------
(* Risk labels, lines 87-99 and 135-142 *)
Safe == <<"U+1F7E2"," ","S","a","f","e">>
CautionG1 ==
  <<"U+1F7E1"," ","C","a","u","t","i","o","n"," ","(","G","1"," ","M","i","n","o","r"," ",
    "S","t","o","r","m",")">>
HighRiskG2 ==
  <<"U+1F7E0"," ","H","i","g","h"," ","R","i","s","k"," ","(","G","2"," ","M","o","d","e",
    "r","a","t","e"," ","S","t","o","r","m",")">>
HighRiskG3 ==
  <<"U+1F534"," ","H","i","g","h"," ","R","i","s","k"," ","(","G","3"," ","S","t","r","o",
    "n","g"," ","S","t","o","r","m",")">>
SevereRiskG4 ==
  <<"U+26D4"," ","S","e","v","e","r","e"," ","R","i","s","k"," ","(","G","4"," ","S","e",
    "v","e","r","e"," ","S","t","o","r","m",")">>
ExtremeRiskG5 ==
  <<"U+1F6A8"," ","E","x","t","r","e","m","e"," ","R","i","s","k"," ","(","G","5"," ","E",
    "x","t","r","e","m","e"," ","S","t","o","r","m",")">>

\* the half-open G-scale intervals: what a slip of == for a range test would
\* not do
gps_risk_half_open(k) ==
  IF PyLe(k, 4 * KpScale) THEN Safe
  ELSE IF PyLe(5 * KpScale, k) /\ ~PyLe(6 * KpScale, k) THEN CautionG1
  ELSE IF PyLe(6 * KpScale, k) /\ ~PyLe(7 * KpScale, k) THEN HighRiskG2
  ELSE IF PyLe(7 * KpScale, k) /\ ~PyLe(8 * KpScale, k) THEN HighRiskG3
  ELSE IF PyLe(8 * KpScale, k) /\ ~PyLe(9 * KpScale, k) THEN SevereRiskG4
  ELSE ExtremeRiskG5

gps_risk_from_gscale(k) ==
  IF PyLe(k, 4 * KpScale) THEN Safe
  ELSE IF PyEq(k, 5 * KpScale) THEN CautionG1
  ELSE IF PyEq(k, 6 * KpScale) THEN HighRiskG2
  ELSE IF PyEq(k, 7 * KpScale) THEN HighRiskG3
  ELSE IF PyEq(k, 8 * KpScale) THEN SevereRiskG4
  ELSE ExtremeRiskG5

color_map(r) ==
  CASE r = Safe -> <<0, 180, 0>>
    [] r = CautionG1 -> <<255, 200, 0>>
    [] r = HighRiskG2 -> <<255, 140, 0>>
    [] r = HighRiskG3 -> <<220, 80, 0>>
    [] r = SevereRiskG4 -> <<200, 0, 0>>
    [] r = ExtremeRiskG5 -> <<120, 0, 0>>

---------------------------------------------------------------------------
(* Fishing regions, lines 104-130; coordinates in 1/10000 degree *)
regions ==
  <<
    [City |-> <<"M","o","m","b","a","s","a"," ","(","I","n","d","i","a","n"," ","O","c","e","a","n",")">>,
     Latitude |-> -40435, Longitude |-> 396682],
    [City |-> <<"M","a","l","i","n","d","i"," ","(","I","n","d","i","a","n"," ","O","c","e","a","n",")">>,
     Latitude |-> -32174, Longitude |-> 401169],
    [City |-> <<"L","a","m","u"," ","(","I","n","d","i","a","n"," ","O","c","e","a","n",")">>,
     Latitude |-> -22717, Longitude |-> 409020],
    [City |-> <<"K","i","l","i","f","i"," ","(","I","n","d","i","a","n"," ","O","c","e","a","n",")">>,
     Latitude |-> -36308, Longitude |-> 398496],
    [City |-> <<"W","a","t","a","m","u"," ","(","I","n","d","i","a","n"," ","O","c","e","a","n",")">>,
     Latitude |-> -33520, Longitude |-> 400284],
    [City |-> <<"K","i","s","u","m","u"," ","(","L","a","k","e"," ","V","i","c","t","o","r","i","a",")">>,
     Latitude |-> -917, Longitude |-> 347680],
    [City |-> <<"H","o","m","a"," ","B","a","y"," ","(","L","a","k","e"," ","V","i","c","t","o","r","i","a",
              ")">>,
     Latitude |-> -5273, Longitude |-> 344571],
    [City |-> <<"M","b","i","t","a"," ","P","o","i","n","t"," ","(","L","a","k","e"," ","V","i","c","t","o",
              "r","i","a",")">>,
     Latitude |-> -4210, Longitude |-> 342034],
    [City |-> <<"B","o","n","d","o"," ","(","L","a","k","e"," ","V","i","c","t","o","r","i","a",")">>,
     Latitude |-> -1066, Longitude |-> 342502],
    [City |-> <<"K","a","l","o","k","o","l"," ","(","L","a","k","e"," ","T","u","r","k","a","n","a",")">>,
     Latitude |-> 34871, Longitude |-> 358721],
    [City |-> <<"L","o","d","w","a","r"," ","(","L","a","k","e"," ","T","u","r","k","a","n","a",")">>,
     Latitude |-> 31155, Longitude |-> 356007],
    [City |-> <<"N","a","i","v","a","s","h","a"," ","(","L","a","k","e"," ","N","a","i","v","a","s","h","a",
              ")">>,
     Latitude |-> -7167, Longitude |-> 364333],
    [City |-> <<"M","a","r","i","g","a","t"," ","(","L","a","k","e"," ","B","a","r","i","n","g","o",")">>,
     Latitude |-> 4667, Longitude |-> 361000],
    [City |-> <<"K","o","c","h","i"," ","(","A","r","a","b","i","a","n"," ","S","e","a",")">>,
     Latitude |-> 99312, Longitude |-> 762673],
    [City |-> <<"M","a","n","g","a","l","o","r","e"," ","(","A","r","a","b","i","a","n"," ","S","e","a",")">>,
     Latitude |-> 129141, Longitude |-> 748560],
    [City |-> <<"V","e","r","a","v","a","l"," ","(","A","r","a","b","i","a","n"," ","S","e","a",")">>,
     Latitude |-> 209077, Longitude |-> 703679],
    [City |-> <<"M","u","m","b","a","i"," ","(","A","r","a","b","i","a","n"," ","S","e","a",")">>,
     Latitude |-> 190760, Longitude |-> 728777],
    [City |-> <<"K","a","k","i","n","a","d","a"," ","(","B","a","y"," ","o","f"," ","B","e","n","g","a","l",
              ")">>,
     Latitude |-> 169891, Longitude |-> 822475],
    [City |-> <<"C","h","e","n","n","a","i"," ","(","B","a","y"," ","o","f"," ","B","e","n","g","a","l",")">>,
     Latitude |-> 130827, Longitude |-> 802707],
    [City |-> <<"V","i","s","a","k","h","a","p","a","t","n","a","m"," ","(","B","a","y"," ","o","f"," ","B",
              "e","n","g","a","l",")">>,
     Latitude |-> 176868, Longitude |-> 832185],
    [City |-> <<"P","u","r","i"," ","(","B","a","y"," ","o","f"," ","B","e","n","g","a","l",")">>,
     Latitude |-> 198135, Longitude |-> 858312],
    [City |-> <<"P","a","r","a","d","i","p"," ","(","B","a","y"," ","o","f"," ","B","e","n","g","a","l",")">>,
     Latitude |-> 203167, Longitude |-> 866167],
    [City |-> <<"T","u","t","i","c","o","r","i","n"," ","(","B","a","y"," ","o","f"," ","B","e","n","g","a",
              "l",")">>,
     Latitude |-> 87642, Longitude |-> 781348],
    [City |-> <<"K","o","l","l","a","m"," ","(","A","r","a","b","i","a","n"," ","S","e","a",")">>,
     Latitude |-> 88932, Longitude |-> 766141],
    [City |-> <<"N","a","g","a","p","a","t","t","i","n","a","m"," ","(","B","a","y"," ","o","f"," ","B","e",
              "n","g","a","l",")">>,
     Latitude |-> 107630, Longitude |-> 798449]
  >>

---------------------------------------------------------------------------
(* Text helpers *)
All == <<"A","l","l">>
WATA == <<"W","A","T","A">>
ALTK == <<"A","L","T","K">>
Str_Safe == <<"S","a","f","e">>
Str_Caution == <<"C","a","u","t","i","o","n">>

\* Python's  sub in s  for two strings
PyIn(sub, s) ==
  \E i \in 0 .. (Len(s) - Len(sub)) : SubSeq(s, i + 1, i + Len(sub)) = sub

\* sub in s  matched only at the start of s
PyStartsWith(sub, s) ==
  Len(sub) <= Len(s) /\ SubSeq(s, 1, Len(sub)) = sub

Upper == <<"A","B","C","D","E","F","G","H","I","J","K","L","M",
           "N","O","P","Q","R","S","T","U","V","W","X","Y","Z">>
Lower == <<"a","b","c","d","e","f","g","h","i","j","k","l","m",
           "n","o","p","q","r","s","t","u","v","w","x","y","z">>

Folded ==
  [c \in {Upper[i] : i \in 1 .. Len(Upper)} |->
     Lower[CHOOSE i \in 1 .. Len(Upper) : Upper[i] = c]]

\* the case folding of re.IGNORECASE on one character
lower(c) == IF c \in DOMAIN Folded THEN Folded[c] ELSE c

Put(s, k, v) == [x \in DOMAIN s \cup {k} |-> IF x = k THEN v ELSE s[x]]

Raised(e, line) == [raised |-> TRUE, error |-> e, line |-> line]

---------------------------------------------------------------------------
(* fetch_data, lines 43-54.                                                *)
(* A measurement response is what the GET of the Kp feed yields: a status  *)
(* and, when the status is "ok", the decoded JSON array.  An alerts        *)
(* response is the same for alerts.json.                                   *)
JsonNull == -2

\* pd.read_json: one column per key that occurs in any record; a record
\* without the key, or with null, holds NaN
read_json(resp) ==
  IF resp.status # "ok" THEN Raised("read_json", 44)
  ELSE
    LET columns == UNION {DOMAIN resp.series[i] : i \in 1 .. Len(resp.series)}
        cell(rec, c) == IF c \in DOMAIN rec /\ rec[c] # JsonNull
                        THEN rec[c] ELSE NaN
    IN [raised |-> FALSE,
        columns |-> columns,
        rows |-> [i \in 1 .. Len(resp.series) |->
                    [c \in columns |-> cell(resp.series[i], c)]]]

\* requests.get(alerts_url, timeout=10).json()
requests_get_json(resp) ==
  IF resp.status # "ok" THEN Raised(resp.status, 50)
  ELSE [raised |-> FALSE, value |-> resp.body]

\* lines 44-47: the last record of the series
latest_measurement(meas) ==
  LET df == read_json(meas)
  IN IF df.raised THEN df
     ELSE IF Len(df.rows) = 0 THEN Raised("IndexError", 45)
     ELSE IF "kp_index" \notin df.columns THEN Raised("KeyError", 46)
     ELSE IF "time_tag" \notin df.columns THEN Raised("KeyError", 47)
     ELSE [raised |-> FALSE,
           kp_index |-> df.rows[Len(df.rows)]["kp_index"],
           time_tag |-> df.rows[Len(df.rows)]["time_tag"]]

Returned(latest_rec, alerts_data) ==
  [raised |-> FALSE, kp_index |-> latest_rec.kp_index,
   time_tag |-> latest_rec.time_tag, alerts_data |-> alerts_data]

\* lines 49-54 without the except clause: a failure of the alerts call
\* leaves fetch_data
alerts_uncaught(latest_rec, got) ==
  IF latest_rec.raised THEN latest_rec
  ELSE IF got.raised THEN got
  ELSE Returned(latest_rec, got.value)

\* lines 49-54, after lines 44-47 gave latest_rec
with_alerts(latest_rec, got) ==
  IF latest_rec.raised THEN latest_rec
  ELSE Returned(latest_rec, IF got.raised THEN <<>> ELSE got.value)

fetch_data(meas, al) ==
  with_alerts(latest_measurement(meas), requests_get_json(al))

---------------------------------------------------------------------------
(* The rest of the script, lines 70-237: everything derived from the       *)
(* session state and the two filter widgets.                               *)

dict_get(a, key, default) == IF key \in DOMAIN a THEN a[key] ELSE default

\* the test of line 81 with a marker recognised only at the start of the text
has_marker_at_start(a) ==
  PyStartsWith(WATA, dict_get(a, "message", Str_Empty))
    \/ PyStartsWith(ALTK, dict_get(a, "message", Str_Empty))

\* line 81
has_marker(a) ==
  PyIn(WATA, dict_get(a, "message", Str_Empty))
    \/ PyIn(ALTK, dict_get(a, "message", Str_Empty))

\* lines 79-82;  "WATA" in None  is a TypeError
active_alerts(alerts_data) ==
  IF \E i \in 1 .. Len(alerts_data) :
        dict_get(alerts_data[i], "message", Str_Empty) = None
  THEN Raised("TypeError", 81)
  ELSE [raised |-> FALSE, value |-> SelectSeq(alerts_data, has_marker)]

\* one row of line 149
Row(region, r) ==
  [City |-> region.City, Latitude |-> region.Latitude,
   Longitude |-> region.Longitude, Risk |-> r, Color |-> color_map(r)]

\* lines 145-150
risk_df(kp_index) ==
  [i \in 1 .. Len(regions) |-> Row(regions[i], gps_risk_from_gscale(kp_index))]

\* re.compile of a pattern over SearchAlphabet: the alphabet has no ")",
\* so a "(" opens a group that is never closed
re_error(pat) == \E j \in 1 .. Len(pat) : pat[j] = "("

\* re.search(pat, text, re.IGNORECASE) for a pattern of literals and "."
re_search(pat, text) ==
  \E i \in 0 .. (Len(text) - Len(pat)) :
    \A j \in 1 .. Len(pat) :
      pat[j] = "." \/ lower(pat[j]) = lower(text[i + j])

\* lines 173-177
filtered_df(df, city, search) ==
  LET by_city == IF city # All
                 THEN SelectSeq(df, LAMBDA r : r.City = city)
                 ELSE df
  IN IF search = Str_Empty THEN [raised |-> FALSE, value |-> by_city]
     ELSE IF re_error(search) THEN Raised("re.error", 177)
     ELSE [raised |-> FALSE,
           value |-> SelectSeq(by_city, LAMBDA r : re_search(search, r.City))]

NoStatus == [tier |-> "none", status |-> Str_Empty, city |-> Str_Empty]

\* lines 180-187 with the test of the selection left out of line 180
quick_status_any_selection(filtered, city) ==
  IF Len(filtered) > 0
  THEN LET current_status == filtered[1].Risk
       IN [tier |-> IF PyIn(Str_Safe, current_status) THEN "success"
                    ELSE IF PyIn(Str_Caution, current_status) THEN "warning"
                    ELSE "error",
           status |-> current_status,
           city |-> city]
  ELSE NoStatus

\* lines 180-187
quick_status(filtered, city) ==
  IF city # All /\ Len(filtered) > 0
  THEN LET current_status == filtered[1].Risk
       IN [tier |-> IF PyIn(Str_Safe, current_status) THEN "success"
                    ELSE IF PyIn(Str_Caution, current_status) THEN "warning"
                    ELSE "error",
           status |-> current_status,
           city |-> city]
  ELSE NoStatus

\* The page: which elements the run emitted and what they show.  A run that
\* raises shows the elements emitted so far and the exception.
Page(exception, emitted, caption, banner, alert_lines, df, table, quick) ==
  [exception |-> exception, emitted |-> emitted, caption |-> caption,
   banner |-> banner, alert_lines |-> alert_lines, risk_df |-> df,
   table |-> table, quick |-> quick]

NotStarted == Page(0, {}, 0, "none", <<>>, <<>>, <<>>, NoStatus)

FetchFailed(line) == Page(line, {"button"}, 0, "none", <<>>, <<>>, <<>>, NoStatus)

UpToCaption == {"button", "caption"}
UpToWidgets == UpToCaption \cup {"title", "banner", "selectbox", "text_input"}
WholePage == UpToWidgets \cup {"table", "csv", "legend", "map"}

\* lines 159-164: the banner and the messages listed under it
banner_of(active) == IF Len(active) > 0 THEN "error" ELSE "success"
alert_lines(active) ==
  [i \in 1 .. Len(active) |-> dict_get(active[i], "message", None)]

\* line 194
display_df(filtered) ==
  [i \in 1 .. Len(filtered) |->
     [City |-> filtered[i].City, Risk |-> filtered[i].Risk]]

Layout(caption, active, df, flt, city) ==
  IF active.raised
  THEN Page(active.line, UpToCaption, caption, "none", <<>>, <<>>, <<>>, NoStatus)
  ELSE IF flt.raised
  THEN Page(flt.line, UpToWidgets, caption, banner_of(active.value),
            alert_lines(active.value), df, <<>>, NoStatus)
  ELSE Page(0,
            IF city # All /\ Len(flt.value) > 0
            THEN WholePage \cup {"quick"} ELSE WholePage,
            caption, banner_of(active.value), alert_lines(active.value), df,
            display_df(flt.value), quick_status(flt.value, city))

WithTable(caption, active, df, city, search) ==
  Layout(caption, active, df, filtered_df(df, city, search), city)

Render(sess, city, search) ==
  WithTable(sess["last_refresh"], active_alerts(sess["alerts_data"]),
            risk_df(sess["kp_index"]), city, search)

---------------------------------------------------------------------------
(* One run of the script, lines 40-237 *)

\* lines 58-61 with a kp_index that is only set when the session has none
refresh_store_stale_kp(s, r, t) ==
  Put(Put(Put(IF "kp_index" \in DOMAIN s THEN s ELSE Put(s, "kp_index", r.kp_index),
              "time_tag", r.time_tag),
          "alerts_data", r.alerts_data),
      "last_refresh", t)

\* lines 58-61
refresh_store(s, r, t) ==
  Put(Put(Put(Put(s, "kp_index", r.kp_index),
              "time_tag", r.time_tag),
          "alerts_data", r.alerts_data),
      "last_refresh", t)

\* lines 66-68
first_run_store(s, r) ==
  Put(Put(Put(s, "kp_index", r.kp_index),
          "time_tag", r.time_tag),
      "alerts_data", r.alerts_data)

\* history: the keys written by lines 58-61 and by lines 66-68
refresh_keys == {"kp_index", "time_tag", "alerts_data", "last_refresh"}
first_run_keys == {"kp_index", "time_tag", "alerts_data"}

Stamp(o, keys, n) == [x \in DOMAIN o \cup keys |-> IF x \in keys THEN n ELSE o[x]]

\* history: the latest record of the feed carries a Kp number
latest_has_kp(meas) ==
  /\ meas.status = "ok"
  /\ Len(meas.series) > 0
  /\ "kp_index" \in DOMAIN meas.series[Len(meas.series)]
  /\ meas.series[Len(meas.series)]["kp_index"] # JsonNull

\* lines 40-41
init_last_refresh(s, t) ==
  IF "last_refresh" \notin DOMAIN s THEN Put(s, "last_refresh", t) ELSE s

\* the run from line 56 on, given the session state after line 41 (s0, with
\* the history o0), the clock t, and what fetch_data does if it is called (r)
RunFrom(s0, o0, t, button, city, search, r, has_kp, fed) ==
  LET n == fetches + 1
      calls == button \/ "kp_index" \notin DOMAIN s0                 \* 56, 64
  IN /\ now' = t
     /\ city_filter' = city
     /\ search_query' = search
     /\ IF ~calls
        THEN /\ session_state' = s0
             /\ origin' = o0
             /\ display' = Render(s0, city, search)
             /\ UNCHANGED <<fetches, latest>>
        ELSE IF r.raised
        THEN /\ session_state' = s0
             /\ origin' = o0
             /\ display' = FetchFailed(IF button THEN 57 ELSE 65)
             /\ fetches' = n
             /\ UNCHANGED latest
        ELSE /\ session_state' = IF button THEN refresh_store(s0, r, t)
                                 ELSE first_run_store(s0, r)
             /\ origin' = Stamp(o0, IF button THEN refresh_keys
                                    ELSE first_run_keys, n)
             /\ display' = Render(session_state', city, search)
             /\ fetches' = n
             /\ latest' = [fetch |-> n, kp_index |-> r.kp_index,
                           actual |-> has_kp]
     /\ last_run' = [button |-> button,
                     fetch |-> IF ~calls THEN "none"
                               ELSE IF r.raised THEN "raised" ELSE "returned",
                     measurement |-> IF calls THEN fed.measurement ELSE "none",
                     alerts |-> IF calls THEN fed.alerts ELSE "none"]
     /\ UNCHANGED clvars

\* history: what the two feeds did in a run that called fetch_data; the
\* alerts feed is asked only after lines 44-47 returned
Fed(meas, al) ==
  [measurement |-> IF latest_measurement(meas).raised THEN "raised" ELSE "returned",
   alerts |-> IF latest_measurement(meas).raised THEN "none"
              ELSE IF al.status = "ok" THEN "ok" ELSE "failed"]

ScriptRun(button, city, search, meas, al) ==
  RunFrom(init_last_refresh(session_state, now + 1),
          IF "last_refresh" \notin DOMAIN session_state
          THEN Stamp(origin, {"last_refresh"}, 0) ELSE origin,
          now + 1, button, city, search,
          fetch_data(meas, al), latest_has_kp(meas), Fed(meas, al))

---------------------------------------------------------------------------
(* Inputs of the session model *)
MaxFeedKp == 5             \* largest whole Kp value of the feed
MaxRuns == 4               \* runs of the script in one session

SeqsUpTo(S, n) == UNION {[1 .. m -> S] : m \in 0 .. n}

Msg_WATA == <<"W","A","T","A","1","2","3",":"," ","w","a","r","n","i","n","g">>
Msg_Routine == <<"R","o","u","t","i","n","e"," ","r","e","p","o","r","t">>
Msg_ALTK == <<"A","L","T","K","9","9"," ","n","o","t","i","c","e">>
Msg_Code == <<"C","o","d","e",":"," ","W","A","T","A","2","0">>
Product == <<"K","0","4","A">>

\* Kp values of the feed: whole values from the Safe threshold up, and the
\* thirds NOAA reports between them
FeedKpValues ==
  {k * KpScale + f : k \in 4 .. MaxFeedKp, f \in {0, KpScale \div 3}}

\* the latest record of the feed at time t: a Kp number, null, or no
\* kp_index at all
FeedRecords(t) ==
  {[time_tag |-> t, kp_index |-> k] : k \in FeedKpValues \cup {JsonNull}}
    \cup {[time_tag |-> t]}

\* the record before the latest one
Older(t) == [time_tag |-> t - 1, kp_index |-> 4 * KpScale]

\* the feed is down, is not JSON, is an empty array, has the latest record
\* after an older one, or has no kp_index in any record
MeasurementResponses(t) ==
  {[status |-> "unavailable"], [status |-> "unparseable"],
   [status |-> "ok", series |-> <<>>],
   [status |-> "ok", series |-> <<[time_tag |-> t - 1], [time_tag |-> t]>>]}
    \cup {[status |-> "ok", series |-> <<Older(t), rec>>] : rec \in FeedRecords(t)}

AlertsFailures ==
  {[status |-> "network_error"], [status |-> "timeout"], [status |-> "unparseable"]}

\* alerts.json: no alert, a watch, a routine message before an alert, an
\* entry whose message is null
SessionAlertsResponses ==
  AlertsFailures
    \cup {[status |-> "ok", body |-> b] :
            b \in {<<>>, <<[message |-> Msg_WATA]>>,
                   <<[message |-> Msg_Routine], [message |-> Msg_ALTK]>>,
                   <<[product_id |-> Product, message |-> None]>>}}

SessionCities == {All, regions[1].City}
SessionSearches == {Str_Empty, <<"a">>, <<"(">>}

NoResponse == [status |-> "none"]

---------------------------------------------------------------------------
(* The session: the first run, and the reruns the user triggers *)
EmptySession == [x \in {} |-> 0]

IdleClassifier == kp = NaN /\ kp2 = NaN /\ risk = None /\ risk2 = None

\* a new session: nothing in st.session_state, nothing on the page
SessionStart ==
  /\ session_state = EmptySession
  /\ origin = EmptySession
  /\ city_filter = All
  /\ search_query = Str_Empty
  /\ display = NotStarted
  /\ now = 0
  /\ fetches = 0
  /\ latest = [fetch |-> 0, kp_index |-> NaN, actual |-> FALSE]
  /\ last_run = [button |-> FALSE, fetch |-> "none", measurement |-> "none",
                 alerts |-> "none"]

Init == SessionStart /\ IdleClassifier

\* the session opens: widgets at their defaults, no button pressed
FirstRun ==
  /\ display = NotStarted
  /\ now < MaxRuns
  /\ \E meas \in MeasurementResponses(now + 1), al \in SessionAlertsResponses :
       ScriptRun(FALSE, All, Str_Empty, meas, al)

\* "Rerun" of the page; fetches only while kp_index is not in the session
Rerun ==
  /\ display # NotStarted
  /\ now < MaxRuns
  /\ IF "kp_index" \in DOMAIN session_state
     THEN ScriptRun(FALSE, city_filter, search_query, NoResponse, NoResponse)
     ELSE \E meas \in MeasurementResponses(now + 1), al \in SessionAlertsResponses :
            ScriptRun(FALSE, city_filter, search_query, meas, al)

\* the "Refresh Data" button, line 56
ClickRefresh ==
  /\ "button" \in display.emitted
  /\ now < MaxRuns
  /\ \E meas \in MeasurementResponses(now + 1), al \in SessionAlertsResponses :
       ScriptRun(TRUE, city_filter, search_query, meas, al)

\* the selectbox, line 169
SelectLocation ==
  /\ "selectbox" \in display.emitted
  /\ now < MaxRuns
  /\ \E c \in SessionCities \ {city_filter} :
       ScriptRun(FALSE, c, search_query, NoResponse, NoResponse)

\* the text input, line 171
TypeSearch ==
  /\ "text_input" \in display.emitted
  /\ now < MaxRuns
  /\ \E q \in SessionSearches \ {search_query} :
       ScriptRun(FALSE, city_filter, q, NoResponse, NoResponse)

Next == FirstRun \/ Rerun \/ ClickRefresh \/ SelectLocation \/ TypeSearch

Spec == Init /\ [][Next]_vars

---------------------------------------------------------------------------
(* The board: a session whose first run fetched a Kp value and no alert,   *)
(* and the user then setting the two filter widgets, each once and in      *)
(* either order, to every region and every search text of the bounds.      *)
MaxSearchLen == 3          \* longest search text typed

\* letters of "Bay" in either case, and the characters "." and "("
SearchAlphabet == {"b", "a", "Y", ".", "("}
SearchStrings == SeqsUpTo(SearchAlphabet, MaxSearchLen)
Cities == {regions[i].City : i \in 1 .. Len(regions)}

FirstPage(k) ==
  [kp_index |-> k, time_tag |-> 1, alerts_data |-> <<>>, last_refresh |-> 1]

BoardInit ==
  /\ \E k \in FeedKpValues :
       /\ session_state = FirstPage(k)
       /\ latest = [fetch |-> 1, kp_index |-> k, actual |-> TRUE]
       /\ display = Render(FirstPage(k), All, Str_Empty)
  /\ origin = [kp_index |-> 1, time_tag |-> 1, alerts_data |-> 1, last_refresh |-> 0]
  /\ city_filter = All
  /\ search_query = Str_Empty
  /\ now = 1
  /\ fetches = 1
  /\ last_run = [button |-> FALSE, fetch |-> "returned", measurement |-> "returned",
                 alerts |-> "ok"]
  /\ IdleClassifier

SelectAnyLocation ==
  /\ "selectbox" \in display.emitted
  /\ city_filter = All
  /\ \E c \in Cities :
       ScriptRun(FALSE, c, search_query, NoResponse, NoResponse)

TypeAnySearch ==
  /\ "text_input" \in display.emitted
  /\ search_query = Str_Empty
  /\ \E q \in SearchStrings \ {Str_Empty} :
       ScriptRun(FALSE, city_filter, q, NoResponse, NoResponse)

BoardNext == SelectAnyLocation \/ TypeAnySearch

SpecBoard == BoardInit /\ [][BoardNext]_vars

---------------------------------------------------------------------------
(* The alerts feed: sessions opened on every alerts response of the bounds *)
MaxAlerts == 3             \* longest alert list of the feed

AlertEntries ==
  {[message |-> Msg_WATA], [message |-> Msg_Routine], [message |-> Msg_ALTK],
   [message |-> Msg_Code], [product_id |-> Product],
   [product_id |-> Product, message |-> None]}

AlertsResponses ==
  AlertsFailures
    \cup {[status |-> "ok", body |-> b] : b \in SeqsUpTo(AlertEntries, MaxAlerts)}

OpenSession ==
  /\ display = NotStarted
  /\ \E k \in FeedKpValues, al \in AlertsResponses :
       ScriptRun(FALSE, All, Str_Empty,
                 [status |-> "ok",
                  series |-> <<Older(now + 1), [time_tag |-> now + 1, kp_index |-> k]>>],
                 al)

AlertsNext == OpenSession

SpecAlerts == Init /\ [][AlertsNext]_vars

---------------------------------------------------------------------------
(* Classifier harness: gps_risk_from_gscale applied to one Kp value and to *)
(* a second value that is not smaller.                                     *)
KpInputs == 0 .. MaxKp * KpScale

ClassifyInit ==
  /\ kp \in KpInputs \cup {NaN}
  /\ kp2 \in IF kp = NaN THEN {NaN}
             ELSE {k \in KpInputs : kp <= k /\ k <= kp + MaxDelta}
  /\ risk = None
  /\ risk2 = None
  /\ SessionStart

Classify ==
  /\ risk = None
  /\ risk' = gps_risk_from_gscale(kp)
  /\ risk2' = gps_risk_from_gscale(kp2)
  /\ UNCHANGED <<kp, kp2>>
  /\ UNCHANGED uivars

ClassifyNext == Classify

SpecClassify == ClassifyInit /\ [][ClassifyNext]_vars

---------------------------------------------------------------------------
(* Properties *)

RiskLevels == <<Safe, CautionG1, HighRiskG2, HighRiskG3, SevereRiskG4, ExtremeRiskG5>>
Severity(r) == CHOOSE i \in 1 .. Len(RiskLevels) : RiskLevels[i] = r
IsRiskLevel(r) == \E i \in 1 .. Len(RiskLevels) : RiskLevels[i] = r

TableBuilt == "selectbox" \in display.emitted

\* C1: whenever the risk table is built it has exactly one row per region of
\* the catalog, every row carries the same risk label, and that label is
\* gps_risk_from_gscale of the Kp value of the most recent measurement fetch
\* that succeeded.
C1_TableFollowsLatestKp ==
  TableBuilt =>
    /\ latest.fetch > 0
    /\ Len(display.risk_df) = Cardinality(Cities)
    /\ \A c \in Cities :
         Cardinality({i \in 1 .. Len(display.risk_df) : display.risk_df[i].City = c}) = 1
    /\ \A i, j \in 1 .. Len(display.risk_df) :
         display.risk_df[i].Risk = display.risk_df[j].Risk
    /\ \A i \in 1 .. Len(display.risk_df) :
         display.risk_df[i].Risk = gps_risk_from_gscale(latest.kp_index)

\* the table is shown again after a refresh whose fetch failed, and after a
\* refresh that brought a value with another label than the one before
C1_Witness ==
  /\ TableBuilt
  /\ fetches >= 2
  /\ \/ latest.fetch < fetches
     \/ /\ last_run.button
        /\ last_run.fetch = "returned"
        /\ display.risk_df[1].Risk = CautionG1

\* the reference ladder, first match winning
Ladder(k) ==
  CASE k # NaN /\ k <= 4 * KpScale -> Safe
    [] k = 5 * KpScale -> CautionG1
    [] k = 6 * KpScale -> HighRiskG2
    [] k = 7 * KpScale -> HighRiskG3
    [] k = 8 * KpScale -> SevereRiskG4
    [] OTHER -> ExtremeRiskG5

\* C2: gps_risk_from_gscale is the ladder Safe if kp <= 4, Caution if kp = 5,
\* G2 if kp = 6, G3 if kp = 7, G4 if kp = 8 and Extreme in every other case,
\* which takes in kp >= 9 and every fractional value above 4.
C2_ClassifierIsLadder ==
  risk # None =>
    /\ risk = Ladder(kp)
    /\ risk2 = Ladder(kp2)
    /\ (kp # NaN /\ kp > 4 * KpScale /\ kp % KpScale # 0) => risk = ExtremeRiskG5
    /\ kp >= 9 * KpScale => risk = ExtremeRiskG5

\* 5.33 has been classified, as Extreme
C2_Witness ==
  /\ kp = 5 * KpScale + (KpScale \div 3)
  /\ risk = ExtremeRiskG5

\* C3: gps_risk_from_gscale returns one risk level for every Kp value and is
\* monotonically non-decreasing: kp <= kp2 implies the level of kp is not
\* more severe than the level of kp2.
C3_Monotone ==
  risk # None =>
    /\ IsRiskLevel(risk)
    /\ IsRiskLevel(risk2)
    /\ (kp # NaN /\ kp <= kp2) => Severity(risk) <= Severity(risk2)

\* C4: no risk label is displayed that is not derived from a Kp number in the
\* latest record of the series: a series that is unavailable, empty or
\* malformed, a null kp_index of the latest record included, makes fetch_data
\* fail.
C4_NoRiskFromAbsentData ==
  /\ TableBuilt => (latest.actual /\ session_state["kp_index"] # NaN)
  /\ (last_run.fetch = "returned" /\ latest.fetch = fetches) => latest.actual

\* C5: when the measurement fetch succeeds and the alerts fetch fails,
\* fetch_data returns the measurement with an empty alert list, the refresh
\* raises nothing, and the banner shows the no-active-alerts state.
C5_AlertsFailureIsNoAlerts ==
  (last_run.measurement = "returned" /\ last_run.alerts = "failed") =>
    /\ last_run.fetch = "returned"
    /\ latest.fetch = fetches
    /\ session_state["alerts_data"] = <<>>
    /\ session_state["kp_index"] = latest.kp_index
    /\ display.exception \notin {50, 57, 65, 81}
    /\ "banner" \in display.emitted
    /\ display.banner = "success"
    /\ display.alert_lines = <<>>

\* a manual refresh whose alerts call failed, after a run that showed alerts
C5_Witness ==
  /\ last_run.button
  /\ last_run.measurement = "returned"
  /\ last_run.alerts = "failed"
  /\ display.banner = "success"
  /\ fetches >= 2

\* every element the page showed is still shown, with the same content
StaysVisible(before, after) ==
  /\ before.emitted \subseteq after.emitted
  /\ after.caption = before.caption
  /\ after.banner = before.banner
  /\ after.alert_lines = before.alert_lines
  /\ after.risk_df = before.risk_df
  /\ after.table = before.table
  /\ after.quick = before.quick

\* C6: a manual refresh whose measurement fetch fails leaves the stored Kp
\* value, observation time, alert list and last-refresh timestamp as they
\* were, and what the page showed before stays visible.
C6_FailedRefreshKeepsStateAndPage ==
  [][(now' # now /\ last_run'.button /\ last_run'.fetch = "raised") =>
       (session_state' = session_state /\ StaysVisible(display, display'))]_vars

\* C7: the four fields of the session snapshot always come from one and the
\* same fetch; no fetch path leaves a field at the value of an earlier fetch
\* or of the session's initialisation.
C7_SnapshotFromOneFetch ==
  "kp_index" \in DOMAIN session_state =>
    /\ DOMAIN session_state = refresh_keys
    /\ \A k \in DOMAIN session_state : origin[k] = origin["kp_index"]

\* text contains sub, letters compared without their case
Contains(text, sub) ==
  \E i \in 1 .. (Len(text) - Len(sub) + 1) :
    \A j \in 1 .. Len(sub) : lower(text[i + j - 1]) = lower(sub[j])

Wanted(row, city, search) ==
  /\ (city = All \/ row.City = city)
  /\ (search = Str_Empty \/ Contains(row.City, search))

\* C8: the filtered table is exactly the rows whose name is the selected
\* name (or any row when "All" is selected) and whose name contains the
\* search text case-insensitively (or any row when the text is empty); with a
\* catalog name selected and no search text it is exactly one row.
C8_FilterIsIntersection ==
  TableBuilt =>
    /\ "table" \in display.emitted
    /\ \A i \in 1 .. Len(display.risk_df) :
         Wanted(display.risk_df[i], city_filter, search_query)
           <=> (\E j \in 1 .. Len(display.table) :
                  display.table[j].City = display.risk_df[i].City)
    /\ \A j \in 1 .. Len(display.table) :
         \E i \in 1 .. Len(display.risk_df) :
           /\ display.table[j].City = display.risk_df[i].City
           /\ display.table[j].Risk = display.risk_df[i].Risk
    /\ (city_filter # All /\ search_query = Str_Empty) => Len(display.table) = 1

\* the entry has a message and one of the two markers stands in it
Marked(a) ==
  /\ "message" \in DOMAIN a
  /\ \E m \in {WATA, ALTK} :
       \E i \in 1 .. (Len(a["message"]) - 3) :
         \A j \in 1 .. 4 : a["message"][i + j - 1] = m[j]

RECURSIVE MarkedMessages(_)
MarkedMessages(entries) ==
  IF entries = <<>> THEN <<>>
  ELSE IF Marked(Head(entries))
       THEN <<Head(entries)["message"]>> \o MarkedMessages(Tail(entries))
       ELSE MarkedMessages(Tail(entries))

TierOf(r) ==
  IF r = Safe THEN "success" ELSE IF r = CautionG1 THEN "warning" ELSE "error"

RiskOf(city) ==
  display.risk_df[CHOOSE i \in 1 .. Len(display.risk_df) :
                    display.risk_df[i].City = city].Risk

TierFollowsRisk ==
  display.quick.tier # "none" =>
    /\ "quick" \in display.emitted
    /\ display.quick.city = city_filter
    /\ display.quick.status = RiskOf(city_filter)
    /\ display.quick.tier = TierOf(RiskOf(city_filter))

\* C10: a quick-status message is produced exactly when a single specific
\* location is selected; it is the success tier for Safe, the warning tier
\* for Caution, and the error tier for every other risk level.
C10_StatusIffSelected ==
  (display.exception = 0 /\ "table" \in display.emitted) =>
    /\ display.quick.tier # "none" <=> city_filter # All
    /\ TierFollowsRisk

\* C10 as amended: the message is produced exactly when a specific location
\* is selected and the filtered table is not empty, that is, the row of the
\* selected location also passes the search filter; the tiers are as stated.
C10_StatusIffSelectedRowShown ==
  display # NotStarted =>
    /\ display.quick.tier # "none"
         <=> (city_filter # All /\ Len(display.table) > 0)
    /\ TierFollowsRisk

\* a location is selected at risk Caution, and its row passes a search text
C10_Witness ==
  /\ city_filter # All
  /\ search_query # Str_Empty
  /\ display.quick.tier = "warning"
  /\ display.quick.status = CautionG1

====
